---- MODULE Spec2Model ----
(***************************************************************************)
(* Model of cft.go, the Ceres floppy tool: the image buffer, the decoded   *)
(* allocation table, directory enumeration (listFiles), chain-following    *)
(* file reassembly (readFile) and the four commands built on them.         *)
(*                                                                         *)
(* A Go run-time panic (slice bounds out of range, index out of range) is  *)
(* modelled as the outcome "panic": the process aborts, no value and no    *)
(* error is returned to the caller.                                        *)
(***************************************************************************)
EXTENDS Integers, Sequences, FiniteSets, TLC

VARIABLES img, fat, phase, lf, rf, cmd, stdout, files, pair

vars == <<img, fat, phase, lf, rf, cmd, stdout, files, pair>>

(***************************************************************************)
(* Program constants.                                                      *)
(***************************************************************************)
blockSize == 512
maxFilenameLen == 22
fileDescSize == 32
dirEntriesPerBlock == blockSize \div fileDescSize
fatEntries == 720

ErrMedia == "Neither Oberon nor MSDOS formatted diskette"
ErrLabel == "Block 7 does not contain a valid volume label"
ErrOberon == "Not Oberon format"
ErrNotFound == "File not found"
ErrNone == "nil"

(***************************************************************************)
(* Fixed-width integers.                                                   *)
(***************************************************************************)
Pow2(n) == 2 ^ n

\* int16(x): the two's-complement 16-bit value of x
Int16(x) == LET u == x % 65536 IN IF u >= 32768 THEN u - 65536 ELSE u

\* int32(b3)<<24 | int32(b2)<<16 | int32(b1)<<8 | int32(b0) for bytes b0..b3:
\* the shift of b3 wraps into the sign bit
Int32LE(b0, b1, b2, b3) ==
    (IF b3 >= 128 THEN b3 - 256 ELSE b3) * 16777216 + b2 * 65536 + b1 * 256 + b0

\* a >> n on a signed integer (arithmetic shift: floor division)
Shr(a, n) == a \div Pow2(n)

RECURSIVE AndNat(_, _)
AndNat(a, b) ==
    IF a = 0 \/ b = 0 THEN 0
    ELSE 2 * AndNat(a \div 2, b \div 2) + (IF a % 2 = 1 /\ b % 2 = 1 THEN 1 ELSE 0)

\* a & mask for a signed 16-bit a and a non-negative mask below 2^16
And16(a, mask) == AndNat(a % 65536, mask)

(***************************************************************************)
(* The image buffer: fl.img, a Go slice.  bytes holds the non-zero bytes   *)
(* of the file; every other byte below cap is 0.  A slice expression       *)
(* img[lo:hi] panics unless 0 <= lo <= hi <= cap(img).  The int32          *)
(* products of getBlocks cannot overflow: idx is at most 10 + 2 * 32767.   *)
(***************************************************************************)
ByteAt(k) == IF k \in DOMAIN img.bytes THEN img.bytes[k] ELSE 0

PanicSlice == [ok |-> FALSE, ofs |-> 0, len |-> 0]

getBlocks(idx, cnt) ==
    LET ofs == idx * blockSize
        hi  == ofs + cnt * blockSize
    IN  IF 0 <= ofs /\ ofs <= hi /\ hi <= img.cap
        THEN [ok |-> TRUE, ofs |-> ofs, len |-> hi - ofs]
        ELSE PanicSlice

getBlock(idx) == getBlocks(idx, 1)

\* buf[j] for a slice buf of the image
At(buf, j) == ByteAt(buf.ofs + j)

\* the bytes buf[0:n] as a sequence
Bytes(buf, n) == [k \in 1..n |-> ByteAt(buf.ofs + k - 1)]

(***************************************************************************)
(* fileDesc                                                                *)
(***************************************************************************)
fileDescFromBytes(buf, ofs) ==
    LET base == ofs * fileDescSize
    IN  [name |-> [k \in 0..(maxFilenameLen - 1) |-> At(buf, base + k)],
         time |-> Int16(At(buf, base + 23) * 256 + At(buf, base + 22)),
         date |-> Int16(At(buf, base + 25) * 256 + At(buf, base + 24)),
         head |-> Int16(At(buf, base + 27) * 256 + At(buf, base + 26)),
         size |-> Int32LE(At(buf, base + 28), At(buf, base + 29),
                          At(buf, base + 30), At(buf, base + 31))]

\* the value of i when the loop of nameAsString ends: the index of the
\* first zero byte of the name, maxFilenameLen when there is none
NameLen(fd) ==
    LET zeros == {i \in 0..(maxFilenameLen - 1) : fd.name[i] = 0}
    IN  IF zeros = {} THEN maxFilenameLen
        ELSE CHOOSE i \in zeros : \A z \in zeros : i <= z

nameAsString(fd) == [k \in 1..NameLen(fd) |-> fd.name[k - 1]]

\* The arguments timestamp() hands to time.Date.
timestamp(fd) ==
    [y  |-> 1900 + And16(Shr(fd.date, 9), 127),
     m  |-> And16(Shr(fd.date, 5), 15),
     d  |-> And16(fd.date, 31),
     hh |-> And16(Shr(fd.time, 11), 31),
     mm |-> And16(Shr(fd.time, 5), 111),
     ss |-> And16(fd.time, 31) * 2]

readDirBlock(block) ==
    LET buf == getBlock(block)
    IN  [ok |-> buf.ok,
         recs |-> [i \in 0..(dirEntriesPerBlock - 1) |-> fileDescFromBytes(buf, i)]]

(***************************************************************************)
(* initFAT                                                                 *)
(***************************************************************************)
\* DecodeGroup with the sign threshold off by one
DecodeGroupOff(buf, j) ==
    LET n   == At(buf, j + 2) * 65536 + At(buf, j + 1) * 256 + At(buf, j)
        n0  == n % 4096
        n1  == n \div 4096
    IN  <<IF n0 > 2048 THEN n0 - 4096 ELSE n0,
          IF n1 > 2048 THEN n1 - 4096 ELSE n1>>

\* the two table entries decoded from the 3-byte group at buf[j..j+2]
DecodeGroup(buf, j) ==
    LET n   == At(buf, j + 2) * 65536 + At(buf, j + 1) * 256 + At(buf, j)
        n0  == n % 4096
        n1  == n \div 4096
    IN  <<IF n0 > 2047 THEN n0 - 4096 ELSE n0,
          IF n1 > 2047 THEN n1 - 4096 ELSE n1>>

\* initFAT without the two hard-coded sentinels
initFATNoSentinel ==
    LET buf == getBlocks(1, 3)
    IN  [ok |-> buf.ok,
         fat |-> LET e(i) == DecodeGroup(buf, 3 * (i \div 2))[(i % 2) + 1]
                 IN  [i \in {j \in 0..(fatEntries - 1) : e(j) # 0} |-> e(i)]]

\* the table initFAT builds, kept like the image as a function on the
\* entries that are not zero; ok is FALSE when getBlocks(1, 3) panics
initFAT ==
    LET buf == getBlocks(1, 3)
    IN  [ok |-> buf.ok,
         fat |-> LET e(i) == IF i < 2 THEN -1
                             ELSE DecodeGroup(buf, 3 * (i \div 2))[(i % 2) + 1]
                 IN  [i \in {j \in 0..(fatEntries - 1) : e(j) # 0} |-> e(i)]]

(***************************************************************************)
(* listFiles.  A result is [status, err, fds, reads]: status is "ok",      *)
(* "err" (an error value is returned) or "panic"; reads lists the blocks   *)
(* handed to getBlock, in order.                                           *)
(***************************************************************************)
LFResult(status, err, fds, reads) ==
    [status |-> status, err |-> err, fds |-> fds, reads |-> reads]

\* IsTerminator without the deleted-entry marker
IsTerminatorZeroOnly(b) == b = 0

\* the first name byte of a record that ends the enumeration
IsTerminator(b) == b = 0 \/ b = 229

\* the records dbuf[from..to] in order
Slots(dbuf, from, to) == [k \in 1..(to - from + 1) |-> dbuf[from + k - 1]]

\* the enumeration loop from slot j of block s (dbuf its records) on, taken
\* a block at a time: the iterations within the block run up to its first
\* terminator (the break), or else through slot 15, where s is advanced and
\* the loop ends (s == 14) or goes on in the next block
RECURSIVE LFLoop(_, _, _, _, _)
LFLoop(s, dbuf, j, res, reads) ==
    LET stops == {t \in j..(dirEntriesPerBlock - 1) : IsTerminator(dbuf[t].name[0])}
    IN  IF stops # {}
        THEN LET t == CHOOSE x \in stops : \A y \in stops : x <= y
             IN  LFResult("ok", ErrNone, res \o Slots(dbuf, j, t - 1), reads)
        ELSE LET res2 == res \o Slots(dbuf, j, dirEntriesPerBlock - 1)
             IN  IF s + 1 = 14
                 THEN LFResult("ok", ErrNone, res2, reads)
                 ELSE LET nb == readDirBlock(s + 1)
                      IN  IF nb.ok
                          THEN LFLoop(s + 1, nb.recs, 0, res2, Append(reads, s + 1))
                          ELSE LFResult("panic", ErrNone, <<>>, Append(reads, s + 1))

\* LabelRejected with the comparison turned round
LabelRejectedHigh(fd) == fd.name[0] >= 229

\* the volume-label check of listFiles on the label record fd
LabelRejected(fd) == fd.name[0] < 229 /\ fd.name[0] # 0

\* MediaRejected with == for #: no byte equals both, nothing is rejected
MediaRejectedNever(buf) == At(buf, 21) = 249 /\ At(buf, 21) = 233

\* the media-descriptor check of listFiles on the boot sector buf
MediaRejected(buf) == At(buf, 21) # 249 /\ At(buf, 21) # 233

listFiles ==
    LET buf == getBlock(0)
    IN  IF ~buf.ok THEN LFResult("panic", ErrNone, <<>>, <<0>>)
        ELSE IF MediaRejected(buf) THEN LFResult("err", ErrMedia, <<>>, <<0>>)
        ELSE LET dbuf == readDirBlock(7)
             IN  IF ~dbuf.ok THEN LFResult("panic", ErrNone, <<>>, <<0, 7>>)
                 ELSE IF dbuf.recs[0].name[11] # 8
                      THEN LFResult("err", ErrLabel, <<>>, <<0, 7>>)
                 ELSE IF LabelRejected(dbuf.recs[0])
                      THEN LFResult("err", ErrOberon, <<>>, <<0, 7>>)
                 ELSE LFLoop(7, dbuf.recs, 1, <<>>, <<0, 7>>)

(***************************************************************************)
(* readFile, one loop iteration at a time.  A read state is                *)
(* [pc, fd, remaining, i, buf, res, reads, links]: pc is "loop" (at the    *)
(* loop test), "done" (returned res, nil) or "panic"; reads lists the      *)
(* first block of every getBlocks call, links counts the fl.fat[i] reads.  *)
(***************************************************************************)
NoFd ==
    [name |-> [k \in 0..(maxFilenameLen - 1) |-> 0],
     time |-> 0, date |-> 0, head |-> 0, size |-> 0]

RFIdle ==
    [pc |-> "idle", fd |-> NoFd, remaining |-> 0, i |-> 0, buf |-> PanicSlice,
     res |-> <<>>, reads |-> <<>>, links |-> 0]

\* UnitBlock with one block per unit
UnitBlockDense(i) == 10 + i

\* the absolute block of allocation unit i
UnitBlock(i) == 10 + 2 * i

\* readFile up to the first loop test
RFInit(fd) ==
    IF fd.size = 0
    THEN [RFIdle EXCEPT !.pc = "done", !.fd = fd]
    ELSE LET i   == fd.head
             buf == getBlocks(UnitBlock(i), 2)
         IN  [pc |-> IF buf.ok THEN "loop" ELSE "panic", fd |-> fd,
              remaining |-> fd.size, i |-> i, buf |-> buf,
              res |-> <<>>, reads |-> <<UnitBlock(i)>>, links |-> 0]

\* Decrement that leaves remaining as it is
DecrementNone(remaining) == remaining

\* the new value of remaining in the loop body
Decrement(remaining) == remaining - 1024

\* LastPart without the truncation
LastPartWhole(buf, remaining) == Bytes(buf, buf.len)

\* the part of the last unit readFile appends after the loop
LastPart(buf, remaining) == Bytes(buf, remaining)

\* fl.fat[i], for i in 0..719
FatAt(i) == IF i \in DOMAIN fat THEN fat[i] ELSE 0

\* one loop test, and the loop body or the code after the loop
RFStep(s) ==
    IF s.remaining > 1024
    THEN LET res2 == s.res \o Bytes(s.buf, s.buf.len)
             rem2 == Decrement(s.remaining)
         IN  IF s.i \notin 0..(fatEntries - 1)
             THEN [s EXCEPT !.pc = "panic", !.res = res2, !.remaining = rem2]
             ELSE LET i2  == FatAt(s.i)
                      buf == getBlocks(UnitBlock(i2), 2)
                  IN  [pc |-> IF buf.ok THEN "loop" ELSE "panic", fd |-> s.fd,
                       remaining |-> rem2, i |-> i2, buf |-> buf, res |-> res2,
                       reads |-> Append(s.reads, UnitBlock(i2)), links |-> s.links + 1]
    ELSE IF s.remaining < 0
         THEN [s EXCEPT !.pc = "panic"]
         ELSE [s EXCEPT !.pc = "done", !.res = s.res \o LastPart(s.buf, s.remaining)]

RECURSIVE RFRun(_)
RFRun(s) == IF s.pc = "loop" THEN RFRun(RFStep(s)) ELSE s

readFile(fd) == RFRun(RFInit(fd))

(***************************************************************************)
(* extractFile and the commands of parseCommandLine.  The file system is   *)
(* a function from file names to [data, mtime]; fsys says what the file   *)
(* system does: "ok", "writeFails" (os.WriteFile returns an error) or      *)
(* "chtimesFails" (the file is written, os.Chtimes returns an error).      *)
(***************************************************************************)
FsModes == {"ok", "writeFails", "chtimesFails"}

\* the modification time of a file whose time was not set by the program
NoTime == [y |-> 0, m |-> 0, d |-> 0, hh |-> 0, mm |-> 0, ss |-> 0]

WriteFile(fs, name, data, ts) ==
    [n \in DOMAIN fs \cup {name} |->
        IF n = name THEN [data |-> data, mtime |-> ts] ELSE fs[n]]

\* [panic, files]: the error extractFile returns is dropped by its callers
extractFile(fd, fs, fsys) ==
    LET r == readFile(fd)
    IN  IF r.pc = "panic" THEN [panic |-> TRUE, files |-> fs]
        ELSE IF fsys = "writeFails" THEN [panic |-> FALSE, files |-> fs]
        ELSE [panic |-> FALSE,
              files |-> WriteFile(fs, nameAsString(fd), r.res,
                                  IF fsys = "ok" THEN timestamp(fd) ELSE NoTime)]

\* the index of the first entry of fds named name, 0 when there is none
FindName(fds, name) ==
    LET hits == {k \in 1..Len(fds) : nameAsString(fds[k]) = name}
    IN  IF hits = {} THEN 0 ELSE CHOOSE k \in hits : \A h \in hits : k <= h

\* the loop of the extractall command: extractFile on every entry in
\* order, up to the first whose readFile aborts.  A file name that occurs
\* more than once is left with what its last entry wrote.
ExtractAll(fds, fs, fsys) ==
    LET aborts == {k \in 1..Len(fds) : readFile(fds[k]).pc = "panic"}
        stop   == IF aborts = {} THEN Len(fds) + 1
                  ELSE CHOOSE k \in aborts : \A a \in aborts : k <= a
        names  == {nameAsString(fds[k]) : k \in 1..(stop - 1)}
        lastOf(n) == CHOOSE k \in 1..(stop - 1) :
                        /\ nameAsString(fds[k]) = n
                        /\ \A h \in 1..(stop - 1) : nameAsString(fds[h]) = n => h <= k
    IN  [panic |-> aborts # {},
         calls |-> IF aborts = {} THEN Len(fds) ELSE stop,
         files |-> IF fsys = "writeFails" THEN fs
                   ELSE [n \in DOMAIN fs \cup names |->
                           IF n \in names
                           THEN extractFile(fds[lastOf(n)], fs, fsys).files[n]
                           ELSE fs[n]]]

\* a command's outcome: status "ok" (returned nil), "err" or "panic";
\* calls counts the readFile calls made
CmdResult(op, name, status, err, calls) ==
    [op |-> op, name |-> name, status |-> status, err |-> err, calls |-> calls]

NoCmd == CmdResult("none", <<>>, "ok", ErrNone, 0)

\* the line the list command prints for fd
ListLine(fd) == [size |-> fd.size, ts |-> timestamp(fd), name |-> nameAsString(fd)]

(***************************************************************************)
(* newFloppy: os.ReadFile returns the file's bytes in a slice with room    *)
(* for at least one more byte (the read that meets end of file), and at    *)
(* least 512 bytes of capacity.                                            *)
(***************************************************************************)
ReadFileCap(len) == IF len + 1 < 512 THEN 512 ELSE len + 1

FromPairs(S) == [k \in {p[1] : p \in S} |-> (CHOOSE p \in S : p[1] = k)[2]]

\* the image file holding the bytes S (pairs <<offset, value>>), len bytes long
MkImg(len, S) ==
    [len |-> len, cap |-> ReadFileCap(len),
     bytes |-> FromPairs({p \in S : p[1] < len /\ p[2] # 0})]

(***************************************************************************)
(* The images and arguments the model is run on.                           *)
(***************************************************************************)
ImgBlocks == 24
MaxUnits == 3
MaxPick == 3

\* the n little-endian bytes of the two's-complement v at offset ofs
Le(v, n, ofs) == {<<ofs + k, (v \div (256 ^ k)) % 256>> : k \in 0..(n - 1)}

\* table entries 2g and 2g+1 packed as two 12-bit two's-complement values
PackGroup(g, a, b) == Le((a % 4096) + 4096 * (b % 4096), 3, blockSize + 3 * g)

\* directory record q (counted from block 7 slot 0)
Rec(q, name, time, date, head, size) ==
    LET base == 7 * blockSize + q * fileDescSize
    IN  {<<base + k - 1, name[k]>> : k \in 1..Len(name)}
        \cup Le(time, 2, base + 22) \cup Le(date, 2, base + 24)
        \cup Le(head, 2, base + 26) \cup Le(size, 4, base + 28)

Label(first, attr) == {<<7 * blockSize, first>>, <<7 * blockSize + 11, attr>>}

\* recognisable content in allocation unit u
Marks(u) ==
    LET base == (10 + 2 * u) * blockSize
    IN  {<<base, 10 * u + 1>>, <<base + 4, 10 * u + 2>>, <<base + 5, 10 * u + 3>>,
         <<base + 511, 10 * u + 4>>, <<base + 512, 10 * u + 5>>,
         <<base + 1023, 10 * u + 6>>}

Hello == {<<10 * blockSize, 104>>, <<10 * blockSize + 1, 101>>,
          <<10 * blockSize + 2, 108>>, <<10 * blockSize + 3, 108>>,
          <<10 * blockSize + 4, 111>>, <<10 * blockSize + 5, 33>>}

DataArea == Hello \cup UNION {Marks(u) : u \in 1..((ImgBlocks - 10) \div 2)}

NameA == <<65>>
NameTest == <<84, 69, 83, 84, 46, 84, 88, 84>>
NameZ == <<90>>
Names == {NameA, NameTest, NameZ}

\* 2023-06-15 10:30:42 in the packed form of the directory
PackedTime == 10 * 2048 + 30 * 32 + 21
PackedDate == 123 * 512 + 6 * 32 + 15

\* a directory of file A (head, size), TEST.TXT (head 0, size 5), a
\* terminator term and a record after it
SmallDir(head, size, term) ==
    Rec(1, NameA, PackedTime, PackedDate, head, size)
    \cup Rec(2, NameTest, 63 * 32 + 31, 0, 0, 5)
    \cup Rec(3, <<term>>, 0, 0, 0, 0)
    \cup Rec(4, NameZ, 0, 0, 0, 0)

\* fat entries 2..5
Chain(c) == PackGroup(1, c[1], c[2]) \cup PackGroup(2, c[3], c[4])

Linear == <<3, 4, 6, -1>>
Chains == {Linear, <<2, 0, -1, -1>>, <<3, 2, -1, -1>>, <<-1, -1, -1, -1>>,
           <<2047, -2048, 7, 0>>}
Heads == {0, 2, 3, 6, 7, -1, -5, -6, 400}
Sizes == {0, 1, 5, 1024, 1025, 2048, MaxUnits * 1024 - 100, MaxUnits * 1024, -1}

FileImage(head, size, c) ==
    [img |-> MkImg(ImgBlocks * blockSize,
                   {<<21, 249>>} \cup Chain(c) \cup Label(0, 8)
                   \cup SmallDir(head, size, 0) \cup DataArea),
     pair |-> [g |-> 1, a |-> c[1], b |-> c[2]]]

FileImages ==
    {FileImage(2, size, c) : size \in Sizes, c \in Chains}
    \cup {FileImage(head, size, Linear) : head \in Heads, size \in Sizes}

Medias == {249, 233, 240, 0}
Attrs == {8, 0, 16}
Firsts == {0, 65, 228, 229, 230, 255}

FormatImage(media, attr, first) ==
    [img |-> MkImg(ImgBlocks * blockSize,
                   {<<21, media>>} \cup Chain(Linear) \cup Label(first, attr)
                   \cup SmallDir(2, 1500, 229) \cup DataArea),
     pair |-> [g |-> 1, a |-> Linear[1], b |-> Linear[2]]]

FormatImages ==
    {FormatImage(media, attr, first) : media \in Medias, attr \in Attrs, first \in Firsts}

\* a directory of n empty files followed by a terminator and one more record
FullDir(n, term) ==
    UNION {Rec(q, <<70, 48 + (q % 10)>>, 0, 0, 0, 0) : q \in 1..n}
    \cup Rec(n + 1, <<term>>, 0, 0, 0, 0)
    \cup Rec(n + 2, NameZ, 0, 0, 0, 0)

DirCounts == {0, 1, 14, 15, 16, 31}

\* the directory region holds 111 records after the label; record 112 is
\* the first of block 14
DirSlots == 7 * dirEntriesPerBlock - 1

DirImage(n, term, first, blocks) ==
    [img |-> MkImg(blocks * blockSize,
                   {<<21, 233>>} \cup Chain(Linear) \cup Label(first, 8) \cup FullDir(n, term)),
     pair |-> [g |-> 1, a |-> Linear[1], b |-> Linear[2]]]

DirImages ==
    {DirImage(n, term, 229, ImgBlocks) : n \in DirCounts, term \in {0, 229}}
    \cup {DirImage(DirSlots - 1, 229, 255, ImgBlocks), DirImage(DirSlots + 1, 0, 0, ImgBlocks),
          DirImage(DirSlots + 1, 0, 0, 10)}
    \cup {DirImage(5, 0, 0, blocks) : blocks \in {4, 7, 8, 14}}

\* images cut short, some in the middle of a block
LenImages ==
    {[img |-> MkImg(len, {<<21, 249>>} \cup Chain(Linear) \cup Label(0, 8)
                         \cup SmallDir(0, 1024, 0) \cup DataArea),
      pair |-> [g |-> 1, a |-> Linear[1], b |-> Linear[2]]] :
        len \in {0, 1000, 2047, 2048, 12 * blockSize - 2, 12 * blockSize - 1,
                 12 * blockSize}}

Images == FileImages \cup FormatImages \cup DirImages \cup LenImages

Vals12 == {-2048, -2047, -1025, -1, 0, 1, 2, 3, 1024, 2046, 2047}
Groups == {1, 2, 359}

PackImages ==
    {[img |-> MkImg(ImgBlocks * blockSize, {<<21, 249>>} \cup PackGroup(g, a, b)),
      pair |-> [g |-> g, a |-> a, b |-> b]] : g \in Groups, a \in Vals12, b \in Vals12}

(***************************************************************************)
(* The state machine.                                                      *)
(***************************************************************************)
NoListing == LFResult("none", ErrNone, <<>>, <<>>)

InitWith(S) ==
    /\ \E x \in S : img = x.img /\ pair = x.pair
    /\ fat = <<>>
    /\ phase = "start"
    /\ lf = NoListing
    /\ rf = RFIdle
    /\ cmd = NoCmd
    /\ stdout = <<>>
    /\ files = <<>>

Init == InitWith(Images)

\* newFloppy: the image is read and the allocation table decoded; it
\* panics when os.ReadFile returns an error (readOK is FALSE) and when
\* initFAT does
NewFloppy ==
    /\ phase = "start"
    /\ \E readOK \in BOOLEAN :
          LET r == initFAT
          IN  /\ phase' = IF readOK /\ r.ok THEN "loaded" ELSE "crashed"
              /\ fat' = IF readOK /\ r.ok THEN r.fat ELSE fat
    /\ UNCHANGED <<img, lf, rf, cmd, stdout, files, pair>>

\* a call of fl.listFiles()
ListFiles ==
    /\ phase = "loaded"
    /\ rf.pc # "loop"
    /\ lf' = listFiles
    /\ phase' = IF lf'.status = "panic" THEN "crashed" ELSE "loaded"
    /\ UNCHANGED <<img, fat, rf, cmd, stdout, files, pair>>

\* a call of fl.readFile(fd) on an entry of the listing
ReadFile ==
    /\ phase = "loaded"
    /\ lf.status = "ok"
    /\ rf.pc # "loop"
    /\ \E k \in 1..Len(lf.fds) : k <= MaxPick /\ rf' = readFile(lf.fds[k])
    /\ phase' = IF rf'.pc = "panic" THEN "crashed" ELSE "loaded"
    /\ UNCHANGED <<img, fat, lf, cmd, stdout, files, pair>>

\* main runs one command on the freshly loaded image
Fresh == phase = "loaded" /\ lf = NoListing /\ rf = RFIdle /\ cmd = NoCmd

\* what every command does with a failed listFiles
ListingFailed(op, name, l) ==
    /\ cmd' = CmdResult(op, name, l.status, l.err, 0)
    /\ phase' = IF l.status = "panic" THEN "crashed" ELSE "exited"
    /\ UNCHANGED <<stdout, files>>

ListCmd ==
    /\ Fresh
    /\ LET l == listFiles
       IN  IF l.status # "ok" THEN ListingFailed("list", <<>>, l)
           ELSE /\ stdout' = [k \in 1..Len(l.fds) |-> ListLine(l.fds[k])]
                /\ cmd' = CmdResult("list", <<>>, "ok", ErrNone, 0)
                /\ phase' = "exited"
                /\ files' = files
    /\ UNCHANGED <<img, fat, lf, rf, pair>>

DumpCmd(toExtract) ==
    /\ Fresh
    /\ LET l == listFiles
           k == FindName(l.fds, toExtract)
       IN  IF l.status # "ok" THEN ListingFailed("dump", toExtract, l)
           ELSE IF k = 0
           THEN /\ cmd' = CmdResult("dump", toExtract, "err", ErrNotFound, 0)
                /\ phase' = "exited"
                /\ UNCHANGED <<stdout, files>>
           ELSE LET r == readFile(l.fds[k])
                IN  /\ cmd' = CmdResult("dump", toExtract,
                                        IF r.pc = "panic" THEN "panic" ELSE "ok", ErrNone, 1)
                    /\ phase' = IF r.pc = "panic" THEN "crashed" ELSE "exited"
                    /\ stdout' = IF r.pc = "panic" THEN stdout ELSE r.res
                    /\ files' = files
    /\ UNCHANGED <<img, fat, lf, rf, pair>>

ExtractCmd(toExtract, fsys) ==
    /\ Fresh
    /\ LET l == listFiles
           k == FindName(l.fds, toExtract)
       IN  IF l.status # "ok" THEN ListingFailed("extract", toExtract, l)
           ELSE IF k = 0
           THEN /\ cmd' = CmdResult("extract", toExtract, "err", ErrNotFound, 0)
                /\ phase' = "exited"
                /\ UNCHANGED <<stdout, files>>
           ELSE LET x == extractFile(l.fds[k], files, fsys)
                IN  /\ cmd' = CmdResult("extract", toExtract,
                                        IF x.panic THEN "panic" ELSE "ok", ErrNone, 1)
                    /\ phase' = IF x.panic THEN "crashed" ELSE "exited"
                    /\ files' = x.files
                    /\ stdout' = stdout
    /\ UNCHANGED <<img, fat, lf, rf, pair>>

ExtractAllCmd(fsys) ==
    /\ Fresh
    /\ LET l == listFiles
       IN  IF l.status # "ok" THEN ListingFailed("extractall", <<>>, l)
           ELSE LET x == ExtractAll(l.fds, files, fsys)
                IN  /\ cmd' = CmdResult("extractall", <<>>,
                                        IF x.panic THEN "panic" ELSE "ok", ErrNone, x.calls)
                    /\ phase' = IF x.panic THEN "crashed" ELSE "exited"
                    /\ files' = x.files
                    /\ stdout' = stdout
    /\ UNCHANGED <<img, fat, lf, rf, pair>>

Next ==
    \/ NewFloppy
    \/ ListFiles
    \/ ReadFile
    \/ ListCmd
    \/ \E n \in Names : DumpCmd(n)
    \/ \E n \in Names, fsys \in FsModes : ExtractCmd(n, fsys)
    \/ \E fsys \in FsModes : ExtractAllCmd(fsys)

Spec == Init /\ [][Next]_vars

(***************************************************************************)
(* The allocation-table decoding on its own: images that hold one packed   *)
(* group.                                                                  *)
(***************************************************************************)
InitPack == InitWith(PackImages)

NextPack == NewFloppy

SpecPack == InitPack /\ [][NextPack]_vars

(***************************************************************************)
(* readFile one loop iteration per step.  The program is single-threaded   *)
(* and the loop runs without waiting for anything, so an iteration that    *)
(* can run does run (weak fairness of RFIter).                             *)
(***************************************************************************)
InitRF == InitWith(FileImages)

RFCall ==
    /\ phase = "loaded"
    /\ lf.status = "ok"
    /\ rf.pc # "loop"
    /\ \E k \in 1..Len(lf.fds) : k <= MaxPick /\ rf' = RFInit(lf.fds[k])
    /\ phase' = IF rf'.pc = "panic" THEN "crashed" ELSE "loaded"
    /\ UNCHANGED <<img, fat, lf, cmd, stdout, files, pair>>

RFIter ==
    /\ rf.pc = "loop"
    /\ rf' = RFStep(rf)
    /\ phase' = IF rf'.pc = "panic" THEN "crashed" ELSE "loaded"
    /\ UNCHANGED <<img, fat, lf, cmd, stdout, files, pair>>

NextRF ==
    \/ NewFloppy
    \/ ListFiles
    \/ RFCall
    \/ RFIter

SpecRF == InitRF /\ [][NextRF]_vars /\ WF_vars(RFIter)

(***************************************************************************)
(* What the claims speak of, read from the image directly.                 *)
(***************************************************************************)
MediaByte == ByteAt(21)
MediaKnown == MediaByte = 249 \/ MediaByte = 233
LabelAttr == ByteAt(7 * blockSize + 11)
LabelFirst == ByteAt(7 * blockSize)

\* ceil(size / 1024)
NUnits(size) == (size + 1023) \div 1024

\* c_k: the k-th allocation unit of the chain that starts at head
RECURSIVE ChainAt(_, _)
ChainAt(head, k) == IF k = 0 THEN head ELSE FatAt(ChainAt(head, k - 1))

\* the first n bytes of allocation unit c, at absolute block 10 + 2c
UnitPrefix(c, n) == [j \in 1..n |-> ByteAt((10 + 2 * c) * 512 + j - 1)]

\* units 0..k of the file, the last of them cut to the file's size
RECURSIVE ContentUpTo(_, _)
ContentUpTo(fd, k) ==
    LET n == IF k = NUnits(fd.size) - 1 THEN fd.size - 1024 * k ELSE 1024
    IN  (IF k = 0 THEN <<>> ELSE ContentUpTo(fd, k - 1)) \o UnitPrefix(ChainAt(fd.head, k), n)

ExpectedContent(fd) == ContentUpTo(fd, NUnits(fd.size) - 1)

\* some block of a getBlocks(b, 2) call in reads lies outside the image file
OutsideImage(reads) ==
    \E k \in 1..Len(reads) : reads[k] < 0 \/ (reads[k] + 2) * 512 > img.len

\* directory record q, counted from block 7 slot 0, straight from the image
RecordAt(q) == fileDescFromBytes([ok |-> TRUE, ofs |-> 7 * 512, len |-> 7 * 512], q)

Terminators == {q \in 1..111 : ByteAt(7 * 512 + 32 * q) \in {0, 229}}

\* the number of records listed: those before the first terminator
NListed ==
    IF Terminators = {} THEN 111
    ELSE (CHOOSE q \in Terminators : \A t \in Terminators : q <= t) - 1

\* the directory blocks the enumeration reads after block 0
DirBlocksRead ==
    LET lastBlock == IF 7 + ((NListed + 1) \div 16) > 13 THEN 13 ELSE 7 + ((NListed + 1) \div 16)
    IN  [k \in 1..(lastBlock - 6) |-> 6 + k]

(***************************************************************************)
(* C1: whenever readFile returns, the returned bytes number exactly        *)
(* fd.size; for size 0 it returns the empty sequence without reading a     *)
(* block or following a link.  (A readFile that aborts returns nothing:    *)
(* see C7.)                                                                *)
(***************************************************************************)
C1_SizeFidelity ==
    /\ rf.pc = "done" => Len(rf.res) = rf.fd.size
    /\ (rf.pc # "idle" /\ rf.fd.size = 0) =>
          rf.pc = "done" /\ rf.res = <<>> /\ rf.reads = <<>> /\ rf.links = 0
    /\ (cmd.op = "dump" /\ cmd.status = "ok") =>
          \E k \in 1..NListed :
              nameAsString(RecordAt(k)) = cmd.name /\ Len(stdout) = RecordAt(k).size
    /\ \A n \in DOMAIN files :
          \E k \in 1..NListed :
              nameAsString(RecordAt(k)) = n /\ Len(files[n].data) = RecordAt(k).size

C1_Witness ==
    rf.pc = "done" /\ rf.fd.size = 2048 /\ Len(rf.res) = 2048 /\ rf.links = 1

(***************************************************************************)
(* C2: a successful listFiles returns exactly the records from slot 1 of   *)
(* block 7 on, in disk order, up to but excluding the first whose first    *)
(* name byte is 0 or 0xE5, at most 111 of them (blocks 7..13); it reads    *)
(* block 0 and the directory blocks up to the one it stops in, never block *)
(* 14; and it does succeed when the checks pass and blocks 0..13 exist.    *)
(***************************************************************************)
C2_Listing ==
    /\ lf.status = "ok" =>
          /\ lf.fds = [q \in 1..NListed |-> RecordAt(q)]
          /\ lf.reads = <<0>> \o DirBlocksRead
          /\ \A k \in 1..Len(lf.reads) : lf.reads[k] # 14
    /\ (cmd.op = "list" /\ cmd.status = "ok") =>
          stdout = [q \in 1..NListed |-> ListLine(RecordAt(q))]
    /\ (lf.status # "none" /\ MediaKnown /\ LabelAttr = 8
        /\ (LabelFirst = 0 \/ LabelFirst >= 229) /\ img.len >= 14 * 512) =>
          lf.status = "ok"

C2_Witness ==
    /\ lf.status = "ok" /\ Len(lf.fds) = 111
    /\ Terminators = {} /\ ByteAt(14 * 512) # 0

(***************************************************************************)
(* C3: on an image whose byte 21 is neither 0xF9 nor 0xE9, listFiles       *)
(* returns the media-descriptor error and no entries, and list, dump,      *)
(* extract and extractall return that error without calling readFile,      *)
(* writing a file or printing anything.                                    *)
(***************************************************************************)
C3_FormatRejection ==
    (phase # "start" /\ ~MediaKnown) =>
        /\ lf.status # "none" =>
              lf.status = "err" /\ lf.err = ErrMedia /\ lf.fds = <<>>
        /\ cmd.op # "none" =>
              /\ cmd.status = "err" /\ cmd.err = ErrMedia /\ cmd.calls = 0
              /\ files = <<>> /\ stdout = <<>>
        /\ rf = RFIdle

C3_Witness ==
    /\ MediaByte = 240 /\ cmd.op = "extractall"
    /\ cmd.status = "err" /\ cmd.err = ErrMedia

(***************************************************************************)
(* C4 as stated: with a known media descriptor and the volume-label marker *)
(* present, listFiles accepts the label exactly when its first name byte   *)
(* b is 0 or below 0xE5, and fails with the format error otherwise.        *)
(***************************************************************************)
LabelChecked ==
    lf.status # "none" /\ MediaKnown /\ img.len >= 8 * 512 /\ LabelAttr = 8

LabelFailure == lf.status = "err" /\ lf.err = ErrOberon /\ lf.fds = <<>>

C4_AsStated ==
    LabelChecked => (~LabelFailure <=> (LabelFirst = 0 \/ LabelFirst < 229))

(***************************************************************************)
(* C4 amended: under the same conditions listFiles accepts the label       *)
(* exactly when b is 0 or b >= 0xE5; every b in 1..0xE4 makes it fail      *)
(* with the "Not Oberon format" error and no entries.                      *)
(***************************************************************************)
C4_LabelCheck ==
    LabelChecked => (~LabelFailure <=> (LabelFirst = 0 \/ LabelFirst >= 229))

C4_Witness ==
    LabelChecked /\ LabelFirst = 255 /\ lf.status = "ok" /\ Len(lf.fds) > 0

(***************************************************************************)
(* C5: timestamp() yields hour = bits 11..15 of the packed time, minute =  *)
(* bits 5..10 (all six bits) and seconds = 2 * bits 0..4; the time packed  *)
(* from hh=10, mm=30, ss_raw=21 decodes to 10:30:42.                       *)
(***************************************************************************)
TimeBits(t, lo, n) == ((t % 65536) \div (2 ^ lo)) % (2 ^ n)

C5_TimeDecode ==
    (cmd.op = "list" /\ cmd.status = "ok") =>
        \A k \in 1..Len(stdout) :
            LET t == RecordAt(k).time
            IN  /\ stdout[k].ts.hh = TimeBits(t, 11, 5)
                /\ stdout[k].ts.mm = TimeBits(t, 5, 6)
                /\ stdout[k].ts.ss = 2 * TimeBits(t, 0, 5)
                /\ t = 10 * 2048 + 30 * 32 + 21 =>
                      stdout[k].ts.hh = 10 /\ stdout[k].ts.mm = 30 /\ stdout[k].ts.ss = 42

(***************************************************************************)
(* C6: a pair (a, b) of signed 12-bit values packed into a 3-byte group    *)
(* (low 12 bits a, high 12 bits b, little-endian) is decoded by initFAT    *)
(* into exactly a and b, as the two consecutive entries of the group.      *)
(***************************************************************************)
C6_RoundTrip ==
    phase = "loaded" => FatAt(2 * pair.g) = pair.a /\ FatAt(2 * pair.g + 1) = pair.b

C6_Witness ==
    phase = "loaded" /\ pair.g = 359 /\ pair.a = -2048 /\ pair.b = 2047 /\ FatAt(718) = -2048

(***************************************************************************)
(* C7: a block-range access that does not lie inside the image fails with  *)
(* an out-of-range error: readFile on an entry whose head or chain link    *)
(* leads outside the image returns that error and no content, and so does  *)
(* listFiles; neither aborts the program or hands out bytes.               *)
(***************************************************************************)
C7_OutOfRange ==
    /\ (rf.pc # "idle" /\ OutsideImage(rf.reads)) => rf.pc = "err" /\ rf.res = <<>>
    /\ rf.pc # "panic"
    /\ lf.status # "panic"

(***************************************************************************)
(* C8: for size > 0 a returning readFile yields the 1024-byte units at     *)
(* blocks 10 + 2*c_k, k = 0..ceil(size/1024)-1, c_0 = head, c_(k+1) =      *)
(* fat[c_k], the last unit cut to size - 1024*(ceil(size/1024)-1) bytes;   *)
(* it reads exactly those units and follows ceil(size/1024)-1 links.       *)
(***************************************************************************)
C8_Content ==
    (rf.pc = "done" /\ rf.fd.size > 0) =>
        /\ rf.res = ExpectedContent(rf.fd)
        /\ rf.reads = [k \in 1..NUnits(rf.fd.size) |-> 10 + 2 * ChainAt(rf.fd.head, k - 1)]
        /\ rf.links = NUnits(rf.fd.size) - 1

C8_Witness ==
    /\ rf.pc = "done" /\ rf.fd.size = 3 * 1024 /\ rf.fd.head = 2
    /\ rf.reads = <<14, 16, 18>> /\ rf.links = 2
    /\ rf.res[1] = 21 /\ rf.res[1025] = 31 /\ rf.res[3072] = 46

(***************************************************************************)
(* C9: readFile terminates on every entry and table, cyclic chains         *)
(* included: each iteration lowers remaining by 1024, so for size > 0 it   *)
(* follows at most ceil(size/1024) - 1 links (none for size <= 0), and a   *)
(* readFile that is in its loop leaves it.                                 *)
(***************************************************************************)
C9_Measure ==
    rf.pc # "idle" =>
        /\ rf.fd.size > 0 => rf.links <= NUnits(rf.fd.size) - 1
        /\ rf.fd.size <= 0 => rf.links = 0
        /\ rf.pc = "loop" => rf.remaining = rf.fd.size - 1024 * rf.links

C9_Terminates == [](C9_Measure) /\ ((rf.pc = "loop") ~> (rf.pc # "loop"))

C9_Witness ==
    /\ rf.pc = "done" /\ rf.links = 2 /\ FatAt(2) = 2
    /\ rf.reads = <<14, 14, 14>>

(***************************************************************************)
(* C10: once the image is loaded, no listFiles or readFile call (nor any   *)
(* command) changes the image or the table; entries 0 and 1 are -1 and     *)
(* every entry lies in -2048..2047; a repeated listFiles, or a repeated    *)
(* readFile of the same entry, returns what it returned before.            *)
(***************************************************************************)
TableLoaded ==
    phase \in {"loaded", "exited"} =>
        /\ FatAt(0) = -1 /\ FatAt(1) = -1
        /\ DOMAIN fat \subseteq 0..719
        /\ \A i \in 0..719 : FatAt(i) \in -2048..2047

C10_ReadOnly ==
    /\ [](TableLoaded)
    /\ [][phase # "start" => img' = img /\ fat' = fat]_vars
    /\ [][lf.status # "none" => lf' = lf]_vars
    /\ [][(rf.pc = "done" /\ rf'.fd = rf.fd) => rf' = rf]_vars

C10_Witness ==
    /\ phase = "loaded" /\ lf.status = "ok" /\ rf.pc = "done" /\ rf.links = 2
    /\ FatAt(2) = 3 /\ FatAt(3) = 4

====
